---------------------------- MODULE Spec2Model ----------------------------
(***************************************************************************)
(* A model of process-otu-data.py: read_data, process_data (pruning,       *)
(* normalisation, name resolution through the Open Tree of Life clients    *)
(* otl_tnrs and otl_taxon) and write_data.                                 *)
(*                                                                         *)
(* Strings that the program splits, joins or compares are sequences of     *)
(* one-character strings.  Header fields are atoms.  Python values of      *)
(* several types (None, dict, Response) are records tagged by a field py.  *)
(* A quotient a / b of two integers is the pair <<a, b>>; the comparison   *)
(* with the pruning value is made on integers, which is what the float     *)
(* comparison yields for the counts and the dyadic pruning values used.    *)
(***************************************************************************)
EXTENDS Integers, Sequences, FiniteSets, TLC

VARIABLES
    csvfile,            \* the input file: [header, rows]
    PRUNING_VALUE,      \* the adjustable pruning value, a pair <<num, den>>
    pc,                 \* position of the program
    header,             \* read_data / __main__: header
    species,            \* read_data / __main__: species
    controls,           \* read_data / __main__: controls
    data,               \* read_data / __main__: data
    data_processed,     \* process_data: data_processed
    sums,               \* process_data: sums
    species_processed,  \* process_data: species_processed
    sp_i,               \* process_data: index of sp in `for sp in species`
    name,               \* process_data: name
    taxa,               \* process_data: taxa
    query,              \* otl_tnrs / otl_taxon: query
    res,                \* otl_tnrs / otl_taxon: res, the latest response
    returned,           \* the value the client returned to its caller
    result,             \* otl_checkname: result
    outdict,            \* otl_checkname: outdict
    attempts,           \* requests.post calls made by the running client call
    sleeps,             \* time.sleep calls made by the running client call
    faults,             \* transient failures the network has produced so far
    outfile             \* the output file: [header, rows]

vars == <<csvfile, PRUNING_VALUE, pc, header, species, controls, data,
          data_processed, sums, species_processed, sp_i, name, taxa, query,
          res, returned, result, outdict, attempts, sleeps, faults, outfile>>

(***************************************************************************)
(* Bounds of the model.                                                    *)
(***************************************************************************)
MaxCount == 3       \* largest read count of an input cell
MaxTokens == 3      \* largest number of space-delimited tokens of a label
MaxFaults == 2      \* transient failures the network produces in one run

(***************************************************************************)
(* Python values.                                                          *)
(***************************************************************************)
None == [py |-> "None"]
EmptyDict == [py |-> "dict", len |-> 0]
Unbound == [py |-> "unbound"]

\* Python truthiness of None, {} and a non-empty dict
Truthy(v) == v.py = "dict" /\ v.len > 0

(***************************************************************************)
(* Strings.                                                                *)
(***************************************************************************)
\* str.lower, per character
LowerChar(c) == IF c = "G" THEN "g" ELSE IF c = "S" THEN "s" ELSE c

Lower(s) == [i \in 1..Len(s) |-> LowerChar(s[i])]

\* code points, for the comparison of strings by list.sort
Ord(c) ==
    CASE c = " " -> 32 [] c = "-" -> 45 [] c = "G" -> 71 [] c = "S" -> 83
      [] c = "c" -> 99 [] c = "d" -> 100 [] c = "f" -> 102 [] c = "g" -> 103
      [] c = "k" -> 107 [] c = "o" -> 111 [] c = "p" -> 112 [] c = "s" -> 115
      [] c = "t" -> 116 [] OTHER -> 120

\* ' ' in s
HasSpace(s) == \E i \in 1..Len(s) : s[i] = " "

LastSpace(s) ==
    CHOOSE i \in 1..Len(s) : s[i] = " " /\ \A k \in (i+1)..Len(s) : s[k] # " "

\* s.rsplit(' ', 1)
RSplit(s) ==
    IF HasSpace(s)
    THEN <<SubSeq(s, 1, LastSpace(s) - 1), SubSeq(s, LastSpace(s) + 1, Len(s))>>
    ELSE <<s>>

\* ' '.join(list)
RECURSIVE Join(_)
Join(list) ==
    IF list = <<>> THEN <<>>
    ELSE IF Len(list) = 1 THEN list[1]
    ELSE list[1] \o <<" ">> \o Join(Tail(list))

\* header field lower-casing (fields are atoms)
LowerField(f) ==
    CASE f = "OTU" -> "otu" [] f = "Control" -> "control"
      [] f = "siteA" -> "sitea" [] f = "siteB" -> "siteb" [] OTHER -> f

\* list.index(x): the first position (1-based) of x in list, 0 when absent
Index(list, x) ==
    IF \E i \in 1..Len(list) : list[i] = x
    THEN CHOOSE i \in 1..Len(list) : list[i] = x /\ \A k \in 1..(i-1) : list[k] # x
    ELSE 0

\* the elements of list at the positions from i on that lie in keep, in order
RECURSIVE Select(_, _, _)
Select(list, i, keep) ==
    IF i > Len(list) THEN <<>>
    ELSE (IF i \in keep THEN <<list[i]>> ELSE <<>>) \o Select(list, i + 1, keep)

RECURSIVE SumSeq(_)
SumSeq(s) == IF s = <<>> THEN 0 ELSE Head(s) + SumSeq(Tail(s))


(***************************************************************************)
(* read_data.  A cell of a row is already the integer int(item) yields.    *)
(***************************************************************************)
header_lower(h) == [i \in 1..Len(h) |-> LowerField(h[i])]

\* header_lower.index('control'), 1-based; 0 stands for ValueError
control_col(h) == Index(header_lower(h), "control")

\* [int(row[i]) for i in range(1, len(row)) if i != control_col]
ExperimentalColumns(row, cc) == Select(row, 2, (2..Len(row)) \ {cc})

ReadData ==
    /\ pc = "read_data"
    /\ header_lower(csvfile.header)[1] = "otu"
    /\ control_col(csvfile.header) # 0
    /\ header' = csvfile.header
    /\ species' = [i \in 1..Len(csvfile.rows) |-> Lower(csvfile.rows[i][1])]
    /\ controls' = [i \in 1..Len(csvfile.rows) |->
                       csvfile.rows[i][control_col(csvfile.header)]]
    /\ data' = [i \in 1..Len(csvfile.rows) |->
                   ExperimentalColumns(csvfile.rows[i], control_col(csvfile.header))]
    /\ pc' = "prune"
    /\ UNCHANGED <<csvfile, PRUNING_VALUE, data_processed, sums, species_processed,
                   sp_i, name, taxa, query, res, returned, result, outdict,
                   attempts, sleeps, faults, outfile>>

\* 'no OTU column found', sys.exit(1)
ReadDataNoOTU ==
    /\ pc = "read_data"
    /\ header_lower(csvfile.header)[1] # "otu"
    /\ pc' = "exit1"
    /\ UNCHANGED <<csvfile, PRUNING_VALUE, header, species, controls, data,
                   data_processed, sums, species_processed, sp_i, name, taxa,
                   query, res, returned, result, outdict, attempts, sleeps,
                   faults, outfile>>

\* 'no control column found', sys.exit(1)
ReadDataNoControl ==
    /\ pc = "read_data"
    /\ header_lower(csvfile.header)[1] = "otu"
    /\ control_col(csvfile.header) = 0
    /\ pc' = "exit1"
    /\ UNCHANGED <<csvfile, PRUNING_VALUE, header, species, controls, data,
                   data_processed, sums, species_processed, sp_i, name, taxa,
                   query, res, returned, result, outdict, attempts, sleeps,
                   faults, outfile>>

(***************************************************************************)
(* process_data: pruning and proportions.                                  *)
(***************************************************************************)
\* d / c <= PRUNING_VALUE, for c # 0
RatioAtMostPruningValue(d, c) ==
    IF c > 0 THEN d * PRUNING_VALUE[2] <= PRUNING_VALUE[1] * c
             ELSE d * PRUNING_VALUE[2] >= PRUNING_VALUE[1] * c

\* Pruned with the comparison made strict
Pruned_Strict(c, d) ==
    IF c # 0 /\ d * PRUNING_VALUE[2] < PRUNING_VALUE[1] * c THEN 0 ELSE d

\* the value appended to data_processed[i] for control c and count d
Pruned(c, d) == IF c # 0 /\ RatioAtMostPruningValue(d, c) THEN 0 ELSE d

Prune ==
    /\ pc = "prune"
    /\ data_processed' = [i \in 1..Len(data) |->
                             [j \in 1..Len(data[i]) |-> Pruned(controls[i], data[i][j])]]
    /\ pc' = "sums"
    /\ UNCHANGED <<csvfile, PRUNING_VALUE, header, species, controls, data, sums,
                   species_processed, sp_i, name, taxa, query, res, returned,
                   result, outdict, attempts, sleeps, faults, outfile>>

\* the number of tuples of zip(*rows)
ZipLen(rows) ==
    IF rows = <<>> THEN 0
    ELSE CHOOSE n \in 0..Len(rows[1]) :
            /\ \A i \in 1..Len(rows) : n <= Len(rows[i])
            /\ \E i \in 1..Len(rows) : n = Len(rows[i])

\* ColumnSums taken over the counts before pruning
ColumnSums_Raw(rows) ==
    [j \in 1..ZipLen(data) |-> SumSeq([i \in 1..Len(data) |-> data[i][j]])]

\* [sum(i) for i in list(zip(*rows))]
ColumnSums(rows) ==
    [j \in 1..ZipLen(rows) |-> SumSeq([i \in 1..Len(rows) |-> rows[i][j]])]

GetSums ==
    /\ pc = "sums"
    /\ sums' = ColumnSums(data_processed)
    /\ pc' = "proportions"
    /\ UNCHANGED <<csvfile, PRUNING_VALUE, header, species, controls, data,
                   data_processed, species_processed, sp_i, name, taxa, query,
                   res, returned, result, outdict, attempts, sleeps, faults,
                   outfile>>

\* DivisionDefined for a division that yields nan instead of raising
DivisionDefined_NaN(b) == TRUE

\* whether a / b yields a value (Python raises ZeroDivisionError for b = 0)
DivisionDefined(b) == b # 0

\* some division of the proportions loop raises
SomeDivisionRaises ==
    \E i \in 1..Len(data_processed) :
        \E j \in 1..Len(data_processed[i]) : ~DivisionDefined(sums[j])

GetProportions ==
    /\ pc = "proportions"
    /\ ~SomeDivisionRaises
    /\ data_processed' = [i \in 1..Len(data_processed) |->
                             [j \in 1..Len(data_processed[i]) |->
                                 <<data_processed[i][j], sums[j]>>]]
    /\ sp_i' = 1
    /\ pc' = "for_sp"
    /\ UNCHANGED <<csvfile, PRUNING_VALUE, header, species, controls, data, sums,
                   species_processed, name, taxa, query, res, returned, result,
                   outdict, attempts, sleeps, faults, outfile>>

\* the first cell, in loop order, whose division raises
FirstRaising ==
    CHOOSE c \in (1..Len(data_processed)) \X (1..Len(sums)) :
        /\ c[2] <= Len(data_processed[c[1]])
        /\ ~DivisionDefined(sums[c[2]])
        /\ \A i \in 1..Len(data_processed) : \A j \in 1..Len(data_processed[i]) :
              (i < c[1] \/ (i = c[1] /\ j < c[2])) => DivisionDefined(sums[j])

\* ZeroDivisionError leaves process_data; the cells before it are overwritten
GetProportionsZeroDivision ==
    /\ pc = "proportions"
    /\ SomeDivisionRaises
    /\ data_processed' = [i \in 1..Len(data_processed) |->
                             [j \in 1..Len(data_processed[i]) |->
                                 IF i < FirstRaising[1]
                                    \/ (i = FirstRaising[1] /\ j < FirstRaising[2])
                                 THEN <<data_processed[i][j], sums[j]>>
                                 ELSE data_processed[i][j]]]
    /\ pc' = "ZeroDivisionError"
    /\ UNCHANGED <<csvfile, PRUNING_VALUE, header, species, controls, data, sums,
                   species_processed, sp_i, name, taxa, query, res, returned,
                   result, outdict, attempts, sleeps, faults, outfile>>

(***************************************************************************)
(* The Open Tree of Life service, as the clients see it.                   *)
(***************************************************************************)
Response(status, body) == [py |-> "Response", status_code |-> status, json |-> body]

Ranks == {"species", "genus", "family"}

\* the taxa a match can name
Taxa == {[name |-> <<"t">>, ott_id |-> 1, rank |-> r] : r \in Ranks}

\* bodies of a tnrs/match_names answer with status 200
TnrsBodies ==
    {[results |-> <<>>], [results |-> <<[matches |-> <<>>]>>]}
    \cup {[results |-> <<[matches |-> <<[taxon |-> t]>>]>>] : t \in Taxa}

Lineages ==
    { << [rank |-> "family", name |-> <<"f">>], [rank |-> "order", name |-> <<"o">>],
         [rank |-> "class", name |-> <<"c">>], [rank |-> "phylum", name |-> <<"p">>],
         [rank |-> "kingdom", name |-> <<"k">>], [rank |-> "no rank", name |-> <<"c">>],
         [rank |-> "domain", name |-> <<"d">>], [rank |-> "no rank", name |-> <<"o">>] >>,
      << [rank |-> "genus", name |-> <<"g">>], [rank |-> "order", name |-> <<"o">>],
         [rank |-> "domain", name |-> <<"d">>], [rank |-> "no rank", name |-> <<"c">>] >> }

\* bodies of a taxonomy/taxon_info answer with status 200 for taxon t
TaxonBodies(t) ==
    {[rank |-> t.rank, name |-> t.name, unique_name |-> t.name, lineage |-> l] :
        l \in Lineages}

\* statuses other than 200 that otl_tnrs can receive
TnrsOtherStatuses == {400, 500}

\* statuses other than 200 and 400 that otl_taxon can receive
TaxonOtherStatuses == {404, 500}

(***************************************************************************)
(* otl_tnrs.                                                               *)
(***************************************************************************)
\* the frame of a client call that has returned is gone
ReturnFromClient ==
    /\ query' = Unbound
    /\ res' = Unbound
    /\ attempts' = 0
    /\ sleeps' = 0

\* entry of otl_checkname(q): outdict = None, then otl_tnrs(q)
CallCheckname(q) ==
    /\ query' = q
    /\ res' = Unbound
    /\ returned' = Unbound
    /\ result' = Unbound
    /\ outdict' = None
    /\ attempts' = 0
    /\ sleeps' = 0
    /\ pc' = "otl_tnrs"

\* requests.post raises SSLError or ConnectionError
TnrsConnectionError ==
    /\ pc = "otl_tnrs"
    /\ faults < MaxFaults
    /\ faults' = faults + 1
    /\ attempts' = attempts + 1
    /\ pc' = "otl_tnrs_sleep"
    /\ UNCHANGED <<csvfile, PRUNING_VALUE, header, species, controls, data,
                   data_processed, sums, species_processed, sp_i, name, taxa,
                   query, res, returned, result, outdict, sleeps, outfile>>

\* res.status_code != 200
TnrsBadStatus ==
    /\ pc = "otl_tnrs"
    /\ faults < MaxFaults
    /\ \E s \in TnrsOtherStatuses : res' = Response(s, [message |-> "error"])
    /\ faults' = faults + 1
    /\ attempts' = attempts + 1
    /\ pc' = "otl_tnrs_sleep"
    /\ UNCHANGED <<csvfile, PRUNING_VALUE, header, species, controls, data,
                   data_processed, sums, species_processed, sp_i, name, taxa,
                   query, returned, result, outdict, sleeps, outfile>>

\* time.sleep(wait_time); continue
TnrsSleep ==
    /\ pc = "otl_tnrs_sleep"
    /\ sleeps' = sleeps + 1
    /\ pc' = "otl_tnrs"
    /\ UNCHANGED <<csvfile, PRUNING_VALUE, header, species, controls, data,
                   data_processed, sums, species_processed, sp_i, name, taxa,
                   query, res, returned, result, outdict, attempts, faults,
                   outfile>>

\* res.status_code == 200: return res
TnrsOK ==
    /\ pc = "otl_tnrs"
    /\ \E body \in TnrsBodies :
          /\ res' = Response(200, body)
          /\ returned' = Response(200, body)
    /\ attempts' = attempts + 1
    /\ pc' = "otl_checkname"
    /\ UNCHANGED <<csvfile, PRUNING_VALUE, header, species, controls, data,
                   data_processed, sums, species_processed, sp_i, name, taxa,
                   query, result, outdict, sleeps, faults, outfile>>

(***************************************************************************)
(* otl_checkname, after otl_tnrs has returned.                             *)
(***************************************************************************)
\* res.json()['results'] is empty: return outdict, which is None
CheckNoResults ==
    /\ pc = "otl_checkname"
    /\ Len(returned.json.results) = 0
    /\ taxa' = outdict
    /\ pc' = "while"
    /\ ReturnFromClient
    /\ returned' = Unbound
    /\ UNCHANGED <<csvfile, PRUNING_VALUE, header, species, controls, data,
                   data_processed, sums, species_processed, sp_i, name, result,
                   outdict, faults, outfile>>

\* not res.json()['results'][0]['matches']: return { }
CheckNoMatches ==
    /\ pc = "otl_checkname"
    /\ Len(returned.json.results) > 0
    /\ Len(returned.json.results[1].matches) = 0
    /\ taxa' = EmptyDict
    /\ pc' = "while"
    /\ ReturnFromClient
    /\ returned' = Unbound
    /\ UNCHANGED <<csvfile, PRUNING_VALUE, header, species, controls, data,
                   data_processed, sums, species_processed, sp_i, name, result,
                   outdict, faults, outfile>>

\* AfterMatch with the rank tested before the lookup
AfterMatch_RankFirst == "rank"

\* where otl_checkname goes once result is bound: the taxonomy_OTT call
AfterMatch == "otl_taxon"

\* result and outdict are set, then taxonomy_OTT(ott_id) calls otl_taxon
CheckMatch ==
    /\ pc = "otl_checkname"
    /\ Len(returned.json.results) > 0
    /\ Len(returned.json.results[1].matches) > 0
    /\ result' = returned.json.results[1].matches[1]
    /\ outdict' = [py |-> "dict", len |-> 3,
                   current_name |-> result'.taxon.name,
                   id |-> result'.taxon.ott_id,
                   name_source |-> "OTT",
                   higher_taxonomy |-> Unbound,
                   level |-> "unset"]
    /\ query' = result'.taxon.ott_id
    /\ res' = Unbound
    /\ attempts' = 0
    /\ sleeps' = 0
    /\ pc' = AfterMatch
    /\ UNCHANGED <<csvfile, PRUNING_VALUE, header, species, controls, data,
                   data_processed, sums, species_processed, sp_i, name, taxa,
                   returned, faults, outfile>>

(***************************************************************************)
(* otl_taxon.                                                              *)
(***************************************************************************)
TaxonConnectionError ==
    /\ pc = "otl_taxon"
    /\ faults < MaxFaults
    /\ faults' = faults + 1
    /\ attempts' = attempts + 1
    /\ pc' = "otl_taxon_sleep"
    /\ UNCHANGED <<csvfile, PRUNING_VALUE, header, species, controls, data,
                   data_processed, sums, species_processed, sp_i, name, taxa,
                   query, res, returned, result, outdict, sleeps, outfile>>

\* a status that is neither 200 nor 400
TaxonBadStatus ==
    /\ pc = "otl_taxon"
    /\ faults < MaxFaults
    /\ \E s \in TaxonOtherStatuses : res' = Response(s, [message |-> "error"])
    /\ faults' = faults + 1
    /\ attempts' = attempts + 1
    /\ pc' = "otl_taxon_sleep"
    /\ UNCHANGED <<csvfile, PRUNING_VALUE, header, species, controls, data,
                   data_processed, sums, species_processed, sp_i, name, taxa,
                   query, returned, result, outdict, sleeps, outfile>>

TaxonSleep ==
    /\ pc = "otl_taxon_sleep"
    /\ sleeps' = sleeps + 1
    /\ pc' = "otl_taxon"
    /\ UNCHANGED <<csvfile, PRUNING_VALUE, header, species, controls, data,
                   data_processed, sums, species_processed, sp_i, name, taxa,
                   query, res, returned, result, outdict, attempts, faults,
                   outfile>>

\* res.status_code == 200: return res
TaxonOK ==
    /\ pc = "otl_taxon"
    /\ \E body \in TaxonBodies(result.taxon) :
          /\ res' = Response(200, body)
          /\ returned' = Response(200, body)
    /\ attempts' = attempts + 1
    /\ pc' = "taxonomy_OTT"
    /\ UNCHANGED <<csvfile, PRUNING_VALUE, header, species, controls, data,
                   data_processed, sums, species_processed, sp_i, name, taxa,
                   query, result, outdict, sleeps, faults, outfile>>

\* AfterBadRequest with status 400 retried like any other status
AfterBadRequest_Retry == "otl_taxon_sleep"

\* where otl_taxon goes on status 400: 'skipping', return None
AfterBadRequest == "taxonomy_OTT"

\* res.status_code == 400
TaxonBadRequest ==
    /\ pc = "otl_taxon"
    /\ res' = Response(400, [message |-> "error"])
    /\ returned' = None
    /\ attempts' = attempts + 1
    /\ pc' = AfterBadRequest
    /\ UNCHANGED <<csvfile, PRUNING_VALUE, header, species, controls, data,
                   data_processed, sums, species_processed, sp_i, name, taxa,
                   query, result, outdict, sleeps, faults, outfile>>

(***************************************************************************)
(* taxonomy_OTT.  Of out_dict the model keeps the rank names ('tax_<rank>' *)
(* is keyed by <rank>), the rank, the id and the accepted name.            *)
(***************************************************************************)
LineageRanks(body) == {body.lineage[i].rank : i \in 1..Len(body.lineage)}

\* a dict comprehension keeps the last entry of a repeated key
LastOfRank(body, r) ==
    body.lineage[CHOOSE i \in 1..Len(body.lineage) :
                    /\ body.lineage[i].rank = r
                    /\ \A k \in (i+1)..Len(body.lineage) : body.lineage[k].rank # r].name

\* the ranks popped or deleted from out_dict: 'tax_no rank', 'tax_species',
\* and 'tax_genus' for a species or subspecies with a genus in its lineage
RemovedRanks(body) ==
    {"no rank", "species"}
    \cup (IF body.rank \in {"species", "subspecies"} /\ "genus" \in LineageRanks(body)
          THEN {"genus"} ELSE {})

out_dict(body, ott_id) ==
    [py |-> "dict", len |-> 4,
     tax |-> [r \in LineageRanks(body) \ RemovedRanks(body) |-> LastOfRank(body, r)],
     rank |-> body.rank,
     tax_ott_id |-> ott_id,
     tax_ott_accepted_name |-> body.name]

\* otl_taxon returned a response: outdict['higher_taxonomy'] = out_dict
TaxonomyOTT ==
    /\ pc = "taxonomy_OTT"
    /\ returned.py = "Response"
    /\ outdict' = [outdict EXCEPT
                      !.higher_taxonomy = out_dict(returned.json, result.taxon.ott_id),
                      !.len = 4]
    /\ ReturnFromClient
    /\ returned' = Unbound
    /\ pc' = "rank"
    /\ UNCHANGED <<csvfile, PRUNING_VALUE, header, species, controls, data,
                   data_processed, sums, species_processed, sp_i, name, taxa,
                   result, faults, outfile>>

\* otl_taxon returned None: res.json() raises AttributeError, which nothing catches
TaxonomyOTTAttributeError ==
    /\ pc = "taxonomy_OTT"
    /\ returned.py = "None"
    /\ pc' = "AttributeError"
    /\ UNCHANGED <<csvfile, PRUNING_VALUE, header, species, controls, data,
                   data_processed, sums, species_processed, sp_i, name, taxa,
                   query, res, returned, result, outdict, attempts, sleeps,
                   faults, outfile>>

(***************************************************************************)
(* otl_checkname, after taxonomy_OTT has returned.                         *)
(***************************************************************************)
\* the ranks otl_checkname gives a level
AcceptedRanks == {"species", "genus"}

\* species or genus: return outdict with its level
CheckRankAccepted ==
    /\ pc = "rank"
    /\ result.taxon.rank \in AcceptedRanks
    /\ outdict' = [outdict EXCEPT !.level = result.taxon.rank, !.len = 5]
    /\ taxa' = outdict'
    /\ pc' = "while"
    /\ UNCHANGED <<csvfile, PRUNING_VALUE, header, species, controls, data,
                   data_processed, sums, species_processed, sp_i, name, query,
                   res, returned, result, attempts, sleeps, faults, outfile>>

\* 'found in ott, but not as genus or species': return None
CheckRankOther ==
    /\ pc = "rank"
    /\ result.taxon.rank \notin AcceptedRanks
    /\ taxa' = None
    /\ pc' = "while"
    /\ UNCHANGED <<csvfile, PRUNING_VALUE, header, species, controls, data,
                   data_processed, sums, species_processed, sp_i, name, query,
                   res, returned, result, outdict, attempts, sleeps, faults,
                   outfile>>

(***************************************************************************)
(* process_data: the taxonomy loop.                                        *)
(***************************************************************************)
\* for sp in species: name = [sp]; species_processed += [[]]; otl_checkname(sp)
ForSp ==
    /\ pc = "for_sp"
    /\ sp_i <= Len(species)
    /\ name' = <<species[sp_i]>>
    /\ species_processed' = Append(species_processed, <<>>)
    /\ CallCheckname(species[sp_i])
    /\ UNCHANGED <<csvfile, PRUNING_VALUE, header, species, controls, data,
                   data_processed, sums, sp_i, taxa, faults, outfile>>

\* WhileCondition that shortens only after an answer without matches, { }
WhileCondition_OnlyEmpty(t, n) == t.py = "dict" /\ t.len = 0 /\ HasSpace(n[1])

\* the condition of `while not taxa and ' ' in name[0]`
WhileCondition(t, n) == ~Truthy(t) /\ HasSpace(n[1])

\* Shortened with the dropped token put last
Shortened_Reversed(n) == <<RSplit(n[1])[1]>> \o Tail(n) \o <<RSplit(n[1])[2]>>

\* name[0].rsplit(' ', 1) + name[1:]
Shortened(n) == RSplit(n[1]) \o Tail(n)

Shorten ==
    /\ pc = "while"
    /\ WhileCondition(taxa, name)
    /\ name' = Shortened(name)
    /\ CallCheckname(name'[1])
    /\ UNCHANGED <<csvfile, PRUNING_VALUE, header, species, controls, data,
                   data_processed, sums, species_processed, sp_i, taxa, faults,
                   outfile>>

LineageKeys == <<"domain", "kingdom", "phylum", "class", "order", "family">>

\* taxa['higher_taxonomy'][key], '-' on KeyError
LineageField(t, key) ==
    IF key \in DOMAIN t.higher_taxonomy.tax THEN t.higher_taxonomy.tax[key]
    ELSE <<"-">>

\* the row of a resolved name
ResolvedRow(t, n) ==
    [k \in 1..6 |-> LineageField(t, LineageKeys[k])]
    \o << IF Len(n) > 1 THEN t.current_name \o <<" ">> \o Join(Tail(n))
          ELSE t.current_name >>

\* UnresolvedRow that echoes the shortened name
UnresolvedRow_Shortened(sp, n) ==
    << <<"-">>, <<"-">>, <<"-">>, <<"-">>, <<"-">>, <<"-">>, n[1] >>

\* the row of an unresolved name
UnresolvedRow(sp, n) ==
    << <<"-">>, <<"-">>, <<"-">>, <<"-">>, <<"-">>, <<"-">>, sp >>

RowResolved ==
    /\ pc = "while"
    /\ ~WhileCondition(taxa, name)
    /\ Truthy(taxa)
    /\ species_processed' =
          [species_processed EXCEPT ![Len(species_processed)] = ResolvedRow(taxa, name)]
    /\ sp_i' = sp_i + 1
    /\ result' = Unbound
    /\ outdict' = Unbound
    /\ pc' = "for_sp"
    /\ UNCHANGED <<csvfile, PRUNING_VALUE, header, species, controls, data,
                   data_processed, sums, name, taxa, query, res, returned,
                   attempts, sleeps, faults, outfile>>

RowUnresolved ==
    /\ pc = "while"
    /\ ~WhileCondition(taxa, name)
    /\ ~Truthy(taxa)
    /\ species_processed' =
          [species_processed EXCEPT
              ![Len(species_processed)] = UnresolvedRow(species[sp_i], name)]
    /\ sp_i' = sp_i + 1
    /\ result' = Unbound
    /\ outdict' = Unbound
    /\ pc' = "for_sp"
    /\ UNCHANGED <<csvfile, PRUNING_VALUE, header, species, controls, data,
                   data_processed, sums, name, taxa, query, res, returned,
                   attempts, sleeps, faults, outfile>>

(***************************************************************************)
(* write_data.                                                             *)
(***************************************************************************)
FixedHeader ==
    <<"domain", "kingdom", "phylum", "class", "order", "family", "genus, species">>

\* header[1:-1]
SampleNames(h) == SubSeq(h, 2, Len(h) - 1)

\* a < b for two strings
StrLess(a, b) ==
    \E i \in 1..(Len(b)) :
        /\ \A k \in 1..(i-1) : k <= Len(a) /\ a[k] = b[k]
        /\ (i > Len(a) \/ Ord(a[i]) < Ord(b[i]))

\* the k-th elements x and y of two rows: strings up to 7, quotients after
ElemLess(x, y, k) == IF k <= 7 THEN StrLess(x, y) ELSE x[1] * y[2] < y[1] * x[2]

ElemEq(x, y, k) == IF k <= 7 THEN x = y ELSE x[1] * y[2] = y[1] * x[2]

\* a < b for two rows of one length
RowLess(a, b) ==
    \E k \in 1..Len(a) :
        /\ \A m \in 1..(k-1) : ElemEq(a[m], b[m], m)
        /\ ElemLess(a[k], b[k], k)

\* row put into a sorted list after the rows that are not greater
RECURSIVE Insert(_, _)
Insert(row, sorted) ==
    IF sorted = <<>> THEN <<row>>
    ELSE IF RowLess(row, Head(sorted)) THEN <<row>> \o sorted
    ELSE <<Head(sorted)>> \o Insert(row, Tail(sorted))

\* list.sort(), which is stable
RECURSIVE Sort(_)
Sort(rows) ==
    IF rows = <<>> THEN <<>>
    ELSE Insert(rows[Len(rows)], Sort(SubSeq(rows, 1, Len(rows) - 1)))

\* the loop is over: process_data returns and write_data writes the file
WriteData ==
    /\ pc = "for_sp"
    /\ sp_i > Len(species)
    /\ outfile' = [header |-> FixedHeader \o SampleNames(header),
                   rows |-> Sort([i \in 1..Len(species_processed) |->
                                     species_processed[i] \o data_processed[i]])]
    /\ pc' = "done"
    /\ UNCHANGED <<csvfile, PRUNING_VALUE, header, species, controls, data,
                   data_processed, sums, species_processed, sp_i, name, taxa,
                   query, res, returned, result, outdict, attempts, sleeps,
                   faults>>

(***************************************************************************)
(* Input files and specifications.                                         *)
(***************************************************************************)
File(h, rows) == [header |-> h, rows |-> rows]

Tokens == {<<>>, <<"G">>, <<"s">>}

\* the labels of at most MaxTokens tokens (an empty token gives a doubled,
\* leading or trailing space)
Labels == {Join(ts) : ts \in UNION {[1..n -> Tokens] : n \in 1..MaxTokens}}

\* files whose first label varies
ResolutionFiles ==
    {File(<<"OTU", "siteA", "control">>, << <<l, 1, 0>>, << <<"s">>, 1, 0 >> >>) :
        l \in Labels}

\* the cell of row i under header field f in the files whose header varies
CellOf(f, i) ==
    IF LowerField(f) = "control" THEN 0 ELSE IF f = "siteA" THEN i ELSE 3 - i

RowsUnder(h) ==
    [i \in 1..2 |-> [k \in 1..Len(h) |->
        IF k = 1 THEN (IF i = 1 THEN <<"G">> ELSE <<"s">>) ELSE CellOf(h[k], i)]]

\* files whose header varies: the control column first, in the middle, last
HeaderFiles ==
    {File(h, RowsUnder(h)) :
        h \in {<<"OTU", "control", "siteA", "siteB">>,
               <<"OTU", "siteA", "Control", "siteB">>,
               <<"otu", "siteA", "siteB", "control">>,
               <<"OTU", "siteA", "control">>,
               <<"OTU", "control", "siteA">>,
               <<"OTU", "control">>}}

\* files read_data refuses
BadFiles ==
    {File(h, RowsUnder(h)) :
        h \in {<<"name", "siteA", "control">>, <<"OTU", "siteA", "siteB">>}}

\* files whose counts vary
PruneFiles ==
    {File(<<"OTU", "siteA", "siteB", "control">>,
          << << <<"G">>, r[1], r[2], r[3] >>, << <<"s">> >> \o q >>) :
        r \in [1..3 -> 0..MaxCount], q \in {<<1, 0, 0>>, <<0, 2, 1>>, <<3, 3, 2>>}}

\* Sp1 control=10 siteA=20, Sp2 control=10 siteA=5
ExampleFile ==
    File(<<"OTU", "siteA", "control">>,
         << << <<"G">>, 20, 10 >>, << <<"s">>, 5, 10 >> >>)

PruningValues == {<<0, 1>>, <<1, 1>>, <<3, 2>>}

InitWith(files, values) ==
    /\ csvfile \in files
    /\ PRUNING_VALUE \in values
    /\ pc = "read_data"
    /\ header = <<>>
    /\ species = <<>>
    /\ controls = <<>>
    /\ data = <<>>
    /\ data_processed = <<>>
    /\ sums = <<>>
    /\ species_processed = <<>>
    /\ sp_i = 1
    /\ name = <<>>
    /\ taxa = Unbound
    /\ query = Unbound
    /\ res = Unbound
    /\ returned = Unbound
    /\ result = Unbound
    /\ outdict = Unbound
    /\ attempts = 0
    /\ sleeps = 0
    /\ faults = 0
    /\ outfile = Unbound

\* a file whose only sample column is pruned to zero under 1.5
ZeroFile ==
    File(<<"OTU", "siteA", "control">>,
         << << <<"G">>, 1, 1 >>, << <<"s">>, 3, 2 >> >>)

Init ==
    InitWith(ResolutionFiles \cup HeaderFiles \cup BadFiles \cup {ZeroFile}, {<<3, 2>>})

InitPrune ==
    InitWith(PruneFiles \cup {ExampleFile} \cup BadFiles
             \cup {File(<<"OTU", "siteA", "control">>,
                        << << <<"G", " ", "s">>, 1, 0 >> >>)},
             PruningValues)

Next ==
    \/ ReadData
    \/ ReadDataNoOTU
    \/ ReadDataNoControl
    \/ Prune
    \/ GetSums
    \/ GetProportions
    \/ GetProportionsZeroDivision
    \/ ForSp
    \/ TnrsConnectionError
    \/ TnrsBadStatus
    \/ TnrsSleep
    \/ TnrsOK
    \/ CheckNoResults
    \/ CheckNoMatches
    \/ CheckMatch
    \/ TaxonConnectionError
    \/ TaxonBadStatus
    \/ TaxonSleep
    \/ TaxonOK
    \/ TaxonBadRequest
    \/ TaxonomyOTT
    \/ TaxonomyOTTAttributeError
    \/ CheckRankAccepted
    \/ CheckRankOther
    \/ Shorten
    \/ RowResolved
    \/ RowUnresolved
    \/ WriteData

Spec == Init /\ [][Next]_vars

SpecPrune == InitPrune /\ [][Next]_vars

(***************************************************************************)
(* Properties.                                                             *)
(***************************************************************************)
Rows == 1..Len(data)

Cols == 1..ZipLen(data)

\* the pruning rule as stated: 0 when the control is positive and
\* count / control <= threshold, else the raw count
StatedPruned(i, j) ==
    IF controls[i] > 0
       /\ data[i][j] * PRUNING_VALUE[2] <= PRUNING_VALUE[1] * controls[i]
    THEN 0 ELSE data[i][j]

StatedColumnSum(j) == SumSeq([i \in Rows |-> StatedPruned(i, j)])

\* the proportions loop has completed: process_data is between two names of
\* the taxonomy loop, or has returned
Normalized == pc \in {"for_sp", "done"}

C2_Proportions ==
    Normalized =>
        \A j \in Cols :
            (\E i \in Rows : StatedPruned(i, j) # 0) =>
                /\ StatedColumnSum(j) > 0
                /\ \A i \in Rows :
                      /\ data_processed[i][j] = <<StatedPruned(i, j), StatedColumnSum(j)>>
                      /\ 0 <= data_processed[i][j][1]
                      /\ data_processed[i][j][1] <= data_processed[i][j][2]
                /\ SumSeq([i \in Rows |-> data_processed[i][j][1]]) = StatedColumnSum(j)

\* the example: control 10 and 20 reads give 1.0, control 10 and 5 reads give 0.0
C2_Witness ==
    /\ Normalized
    /\ csvfile = ExampleFile
    /\ PRUNING_VALUE = <<3, 2>>
    /\ data_processed = << << <<20, 20>> >>, << <<0, 20>> >> >>

\* C3: a resolved row's name is the matched taxon's accepted name followed
\* by the part of the label after the matched prefix, that is the dropped
\* tokens, space-separated, in their original order; nothing is appended
\* when the full label matched.
C3_ResolvedName ==
    (pc = "for_sp" /\ sp_i > 1 /\ Truthy(taxa)) =>
        LET sp == species[sp_i - 1]
            row == species_processed[sp_i - 1]
            n == Len(name[1])
        IN  /\ n <= Len(sp)
            /\ SubSeq(sp, 1, n) = name[1]
            /\ n < Len(sp) => sp[n + 1] = " "
            /\ Len(row) = 7
            /\ row[7] = taxa.current_name \o SubSeq(sp, n + 1, Len(sp))
            /\ Len(name) = 1 <=> name[1] = sp

\* 'g s g' resolved at 'g': two tokens dropped and re-appended in order
C3_Witness ==
    /\ pc = "for_sp" /\ sp_i = 2 /\ Truthy(taxa)
    /\ species[1] = <<"g", " ", "s", " ", "g">>
    /\ name = << <<"g">>, <<"s">>, <<"g">> >>
    /\ species_processed[1][7] = <<"t", " ", "s", " ", "g">>

\* C4: a name whose resolution ends without a match gets six '-' followed
\* by the original full label, never a shortened prefix.
C4_UnresolvedRow ==
    (pc = "for_sp" /\ sp_i > 1 /\ ~Truthy(taxa)) =>
        species_processed[sp_i - 1] =
            << <<"-">>, <<"-">>, <<"-">>, <<"-">>, <<"-">>, <<"-">>, species[sp_i - 1] >>

\* a label shortened down to its first token without a match
C4_Witness ==
    /\ pc = "for_sp" /\ sp_i = 2 /\ ~Truthy(taxa)
    /\ Len(name) = 3
    /\ species_processed[1][7] = <<"g", " ", "s", " ", "g">>

\* otl_checkname has just returned None for a candidate of another rank
RankMismatch == pc = "while" /\ taxa.py = "None" /\ outdict.py = "dict"

\* C5 as stated: after a candidate of a rank other than genus or species no
\* name-match is attempted on a shortened prefix and the row is the
\* unresolved placeholder row.
C5_MismatchAbandons ==
    [][RankMismatch =>
          /\ pc' = "for_sp"
          /\ species_processed'[Len(species_processed)] =
                << <<"-">>, <<"-">>, <<"-">>, <<"-">>, <<"-">>, <<"-">>,
                   species[sp_i] >>]_vars

\* C5 as amended: a candidate of another rank is handled like an answer
\* without matches: while the current prefix holds a space the next step is
\* the name-match of the prefix without its last token; otherwise the row is
\* the unresolved placeholder row.
C5_MismatchShortens ==
    [][RankMismatch =>
          IF HasSpace(name[1])
          THEN /\ pc' = "otl_tnrs"
               /\ query' = SubSeq(name[1], 1, LastSpace(name[1]) - 1)
               /\ name' = <<query', SubSeq(name[1], LastSpace(name[1]) + 1, Len(name[1]))>>
                          \o Tail(name)
               /\ species_processed' = species_processed
          ELSE /\ pc' = "for_sp"
               /\ species_processed'[Len(species_processed)] =
                     << <<"-">>, <<"-">>, <<"-">>, <<"-">>, <<"-">>, <<"-">>,
                        species[sp_i] >>]_vars

\* a rank mismatch on a prefix that can still be shortened
C5_Witness == RankMismatch /\ HasSpace(name[1]) /\ result.taxon.rank = "family"

\* C6 as stated: a client-error answer to the taxon lookup lets no
\* exception out of the resolution; the name counts as not found.
C6_NoExceptionPropagates == pc # "AttributeError"

\* C7: otl_tnrs returns only a 200 response; otl_taxon returns only a 200
\* response or, on 400, None at once without a sleep; every other outcome
\* is followed by exactly one sleep and then another attempt.
C7_RetryPolicy ==
    /\ pc = "otl_tnrs" => sleeps = attempts
    /\ pc = "otl_tnrs_sleep" =>
          /\ sleeps = attempts - 1
          /\ res.py = "Response" => res.status_code # 200
    /\ pc = "otl_checkname" =>
          /\ sleeps = attempts - 1
          /\ returned.py = "Response" /\ returned.status_code = 200
          /\ returned = res
    /\ pc = "otl_taxon" => sleeps = attempts
    /\ pc = "otl_taxon_sleep" =>
          /\ sleeps = attempts - 1
          /\ res.py = "Response" => res.status_code \notin {200, 400}
    /\ pc = "taxonomy_OTT" =>
          /\ sleeps = attempts - 1
          /\ \/ returned.py = "Response" /\ returned.status_code = 200 /\ returned = res
             \/ returned.py = "None" /\ res.py = "Response" /\ res.status_code = 400

\* two failed attempts, each slept on once, then a 400 answered with None
C7_Witness ==
    /\ pc = "taxonomy_OTT"
    /\ returned.py = "None"
    /\ attempts = 3
    /\ sleeps = 2

\* some column of pruned counts sums to zero
ZeroColumn == \E j \in Cols : StatedColumnSum(j) = 0

\* C8 as stated: with a column of pruned counts summing to zero
\* process_data still completes.
C8_CompletesWithNaN ==
    (pc \notin {"read_data", "exit1"} /\ ZeroColumn) => pc # "ZeroDivisionError"

\* C8 as amended: with a column of pruned counts summing to zero the
\* proportions loop raises ZeroDivisionError: process_data never completes
\* the normalisation and never starts the taxonomy resolution.
C8_ZeroColumnRaises ==
    /\ (Normalized /\ Rows # {}) => ~ZeroColumn
    /\ (pc = "proportions" /\ Rows # {} /\ ZeroColumn) => SomeDivisionRaises
    /\ pc = "ZeroDivisionError" =>
          /\ ZeroColumn
          /\ species_processed = <<>>
          /\ query.py = "unbound"
          /\ attempts = 0
          /\ outfile.py = "unbound"

\* the error with another column whose sum is not zero
C8_Witness ==
    /\ pc = "ZeroDivisionError"
    /\ \E j \in Cols : StatedColumnSum(j) > 0

\* C9 as stated: the sample names written are the header fields other than
\* the first and the control field, in order, wherever the control column is.
C9_SampleNames ==
    pc = "done" =>
        outfile.header =
            FixedHeader \o Select(header, 2, (2..Len(header)) \ {control_col(header)})

\* the taxon lookup is under way or has just returned
InLookup == pc \in {"otl_taxon", "otl_taxon_sleep", "taxonomy_OTT"}

\* C10 as stated: no taxon lookup occurs for a candidate whose rank is
\* neither genus nor species.
C10_LookupOnlyForAccepted == InLookup => result.taxon.rank \in AcceptedRanks

\* C10 as amended: the lookup is issued for every match candidate before
\* its rank is tested; the rank is tested, and otl_checkname returns for a
\* candidate, only after the lookup has returned a 200 response.
C10_LookupBeforeRankTest ==
    /\ InLookup => outdict.py = "dict" /\ outdict.level = "unset"
    /\ pc = "rank" =>
          /\ outdict.level = "unset"
          /\ outdict.higher_taxonomy.py = "dict"
    /\ (pc = "while" /\ outdict.py = "dict") => outdict.higher_taxonomy.py = "dict"

\* a lookup for a candidate of rank family, retried once and then answered
C10_Witness ==
    /\ pc = "taxonomy_OTT"
    /\ result.taxon.rank = "family"
    /\ sleeps = 1
    /\ returned.py = "Response"

=============================================================================
